---- MODULE Spec2Model ----
(***************************************************************************)
(* Model of the riscu decode front-end:                                    *)
(*   - src/src/decompress.rs: the quadrant decoders of 16-bit compressed   *)
(*     instructions, the instruction field builders, the CI immediate      *)
(*     extractor and the bit permutation utility (u16 and u32);            *)
(*   - src/src/elf.rs: the RISC-U ELF64 loader.                            *)
(* Every function of the source is pure; a behaviour of the model is one   *)
(* call: Init draws the call's inputs, an action applies one function and  *)
(* records which function ran (fn) and what it returned (result).          *)
(***************************************************************************)
EXTENDS Integers, Sequences, FiniteSets, TLC

VARIABLES
    debug_build,     \* cargo profile: debug_assert! and overflow checks are on (dev) or off (release)
    i,               \* the 16-bit compressed word handed to a quadrant decoder
    perm_w,          \* bit width of the Permutable receiver: 16 or 32
    perm,            \* the permutation list handed to permute / inv_permute
    x,               \* the Permutable receiver, as little-endian 16-bit limbs
    elf,             \* the parsed ELF image (goblin's Elf)
    raw,             \* the bytes of the object file
    fn,              \* the function that was called, "none" before the call
    result           \* what the call returned

vars == <<debug_build, i, perm_w, perm, x, elf, raw, fn, result>>

(***************************************************************************)
(* Results: Ok(v), Err(e) and a panic (assert!, unreachable!, overflow,    *)
(* slice index out of range), which unwinds instead of returning.          *)
(***************************************************************************)
Ok(v) == [tag |-> "Ok", val |-> v, err |-> "none"]

Err(e) == [tag |-> "Err", val |-> 0, err |-> e]

Panic(m) == [tag |-> "Panic", val |-> 0, err |-> m]

NoResult == [tag |-> "None", val |-> 0, err |-> "none"]

(***************************************************************************)
(* Bit operations on unsigned integers.                                    *)
(***************************************************************************)
Shr(v, n) == v \div (2 ^ n)

RECURSIVE BitAnd(_, _)
BitAnd(a, b) ==
    IF a = 0 \/ b = 0 THEN 0
    ELSE (a % 2) * (b % 2) + 2 * BitAnd(a \div 2, b \div 2)

RECURSIVE BitOr(_, _)
BitOr(a, b) ==
    IF a = 0 THEN b
    ELSE IF b = 0 THEN a
    ELSE (IF a % 2 = 1 \/ b % 2 = 1 THEN 1 ELSE 0) + 2 * BitOr(a \div 2, b \div 2)

\* u32 << n: the bits shifted past bit 31 are dropped
Shl32(v, n) == (v % (2 ^ (32 - n))) * (2 ^ n)

\* the u16 values
Word16 == 0 .. 65535

\* crate::Register discriminants used by the decoders
Register_Zero == 0

Register_Sp == 2

(***************************************************************************)
(* Bit Permutation Utility (trait Permutable, for u16 and for u32).        *)
(* A W-bit receiver is held as W/16 little-endian 16-bit limbs, so that a  *)
(* u32 keeps all of its 32 bits: u16 is <<v>>, u32 is <<low, high>>.       *)
(***************************************************************************)
LimbBase == 2 ^ 16

Zero(w) == [k \in 1 .. (w \div 16) |-> 0]

\* (self >> n) & 0b1; a release build masks the shift amount to the width
GetBit(w, v, n) == (v[((n % w) \div 16) + 1] \div (2 ^ ((n % w) % 16))) % 2

\* b << n for b in {0, 1}; a release build masks the shift amount to the width
ShlBit(w, b, n) ==
    [k \in 1 .. (w \div 16) |->
        IF k = ((n % w) \div 16) + 1 THEN b * (2 ^ ((n % w) % 16)) ELSE 0]

\* a + b limb by limb from limb k with carry c; the last element is the carry out
RECURSIVE AddCarry(_, _, _, _)
AddCarry(a, b, k, c) ==
    IF k > Len(a) THEN <<c>>
    ELSE LET s == a[k] + b[k] + c
         IN  <<s % LimbBase>> \o AddCarry(a, b, k + 1, s \div LimbBase)

\* Iterator::sum of the terms from index k on, acc being the sum so far: an
\* overflow panics when overflow checks are on and wraps otherwise
RECURSIVE SumFrom(_, _, _, _)
SumFrom(terms, k, acc, oc) ==
    IF k > Len(terms) THEN Ok(acc)
    ELSE LET s == AddCarry(acc, terms[k], 1, 0)
             wrapped == SubSeq(s, 1, Len(acc))
         IN  IF s[Len(s)] # 0 /\ oc
             THEN Panic("attempt to add with overflow")
             ELSE SumFrom(terms, k + 1, wrapped, oc)

\* the two debug_assert! of permute and inv_permute
PermPrecondition(w, p) ==
    /\ Len(p) <= w
    /\ \A k \in 1 .. Len(p) : p[k] < w

\* perm.iter().rev().enumerate(): bit counts from 0, offset runs from the
\* last entry of perm to the first
RevOffset(p, bit) == p[Len(p) - bit]

\* mutant: inv_permute gathers like permute instead of scattering
inv_permute_gathers(w, v, p, dbg) ==
    IF dbg /\ ~PermPrecondition(w, p)
    THEN Panic("Permutation precondition")
    ELSE SumFrom([b \in 1 .. Len(p) |->
                     ShlBit(w, GetBit(w, v, RevOffset(p, b - 1)), b - 1)],
                 1, Zero(w), dbg)

inv_permute(w, v, p, dbg) ==
    IF dbg /\ ~PermPrecondition(w, p)
    THEN Panic("Permutation precondition")
    ELSE SumFrom([b \in 1 .. Len(p) |->
                     ShlBit(w, GetBit(w, v, b - 1), RevOffset(p, b - 1))],
                 1, Zero(w), dbg)

permute(w, v, p, dbg) ==
    IF dbg /\ ~PermPrecondition(w, p)
    THEN Panic("Permutation precondition")
    ELSE SumFrom([b \in 1 .. Len(p) |->
                     ShlBit(w, GetBit(w, v, RevOffset(p, b - 1)), b - 1)],
                 1, Zero(w), dbg)

(***************************************************************************)
(* Instruction Field Builder.                                              *)
(***************************************************************************)
\* the closure mold of build_rtype
mold_rtype(funct7, rs2, rs1, funct3, rd, opcode) ==
    BitOr(BitOr(BitOr(BitOr(BitOr(Shl32(funct7, 25), Shl32(rs2, 20)),
                            Shl32(rs1, 15)), Shl32(funct3, 12)), Shl32(rd, 7)), opcode)

build_rtype(instruction_type, rd, rs1, rs2) ==
    CASE instruction_type = "Sub" -> mold_rtype(32, rs2, rs1, 0, rd, 51)

\* the closure mold of build_itype
mold_itype(imm, rs1, funct3, rd, opcode) ==
    BitOr(BitOr(BitOr(BitOr(Shl32(imm, 20), Shl32(rs1, 15)), Shl32(funct3, 12)),
                Shl32(rd, 7)), opcode)

build_itype(instruction_type, rd, rs1, imm) ==
    CASE instruction_type = "Addi" -> mold_itype(imm, rs1, 0, rd, 19)
      [] instruction_type = "Lw" -> mold_itype(imm, Register_Sp, 2, rd, 3)

(***************************************************************************)
(* Immediate Extractor.                                                    *)
(***************************************************************************)
get_imm(w, fmt) ==
    CASE fmt = "Ci" -> BitOr(BitAnd(Shr(w, 7), 32), BitAnd(Shr(w, 2), 31))

(***************************************************************************)
(* Quadrant Decoders.  The arm `_ => unreachable!()` of a match on a       *)
(* masked value is kept where a value of the mask can reach it.            *)
(***************************************************************************)
\* mutant: the Reserved arm 0b100 is classified like its neighbours
decompress_q0_no_reserved(w) ==
    LET top == BitAnd(Shr(w, 13), 7)
    IN  IF top = 0 THEN Err("Illegal") ELSE Err("Unimplemented")

decompress_q0(w) ==
    LET top == BitAnd(Shr(w, 13), 7)
    IN  CASE top = 0 -> Err("Illegal")
          [] top = 1 -> Err("Unimplemented")
          [] top = 2 -> Err("Unimplemented")
          [] top = 3 -> Err("Unimplemented")
          [] top = 4 -> Err("Reserved")
          [] top = 5 -> Err("Unimplemented")
          [] top = 6 -> Err("Unimplemented")
          [] top = 7 -> Err("Unimplemented")
          [] OTHER -> Panic("unreachable")

\* mutant: rs2 is expanded without the offset 8 of the compressed registers
misc_alu_11_rs2_unshifted(w) ==
    LET rs1_rd == 8 + BitAnd(Shr(w, 7), 7)
        rs2 == BitAnd(Shr(w, 2), 7)
        b12 == BitAnd(Shr(w, 12), 1)
        b56 == BitAnd(Shr(w, 5), 3)
    IN  CASE b12 = 0 /\ b56 = 0 -> Ok(build_rtype("Sub", rs1_rd, rs1_rd, rs2))
          [] b12 = 1 /\ b56 = 2 -> Err("Reserved")
          [] b12 = 1 /\ b56 = 3 -> Err("Reserved")
          [] OTHER -> Panic("unreachable")

\* the arm 0b11 of the MISC-ALU match of decompress_q1
misc_alu_11(w) ==
    LET rs1_rd == 8 + BitAnd(Shr(w, 7), 7)
        rs2 == 8 + BitAnd(Shr(w, 2), 7)
        b12 == BitAnd(Shr(w, 12), 1)
        b56 == BitAnd(Shr(w, 5), 3)
    IN  CASE b12 = 0 /\ b56 = 0 -> Ok(build_rtype("Sub", rs1_rd, rs1_rd, rs2))
          [] b12 = 1 /\ b56 = 2 -> Err("Reserved")
          [] b12 = 1 /\ b56 = 3 -> Err("Reserved")
          [] OTHER -> Panic("unreachable")

\* mutant: the assertion rd != 0 is missing
c_li_unchecked(w) ==
    Ok(build_itype("Addi", BitAnd(Shr(w, 7), 31), Register_Zero, get_imm(w, "Ci")))

\* the arm 0b010 (C.LI) of decompress_q1
c_li(w) ==
    LET rd == BitAnd(Shr(w, 7), 31)
        imm == get_imm(w, "Ci")
    IN  IF ~(rd # 0) THEN Panic("rd == 0 is reserved!")
        ELSE Ok(build_itype("Addi", rd, Register_Zero, imm))

decompress_q1(w) ==
    LET top == BitAnd(Shr(w, 13), 7)
        sub == BitAnd(Shr(w, 10), 3)
    IN  CASE top = 0 -> Err("Unimplemented")
          [] top = 1 -> Err("Unimplemented")
          [] top = 2 -> c_li(w)
          [] top = 3 -> Err("Unimplemented")
          [] top = 4 ->
                (CASE sub = 0 -> Err("Unimplemented")
                   [] sub = 1 -> Err("Unimplemented")
                   [] sub = 2 -> Err("Unimplemented")
                   [] sub = 3 -> misc_alu_11(w)
                   [] OTHER -> Err("Unimplemented"))
          [] top = 5 -> Err("Unimplemented")
          [] top = 6 -> Err("Unimplemented")
          [] top = 7 -> Err("Unimplemented")
          [] OTHER -> Panic("unreachable")

\* the arm 0b010 (C.LWSP) of decompress_q2
c_lwsp(w, dbg) ==
    LET rd == BitAnd(Shr(w, 7), 31)
        imm == inv_permute(16, <<get_imm(w, "Ci")>>, <<5, 4, 3, 2, 7, 6>>, dbg)
    IN  IF imm.tag = "Panic" THEN imm
        ELSE IF ~(rd # 0) THEN Panic("rd == 0 is reserved!")
        ELSE Ok(build_itype("Lw", rd, 0, imm.val[1]))

decompress_q2(w, dbg) ==
    LET top == BitAnd(Shr(w, 13), 7)
    IN  CASE top = 0 -> Err("Unimplemented")
          [] top = 1 -> Err("Unimplemented")
          [] top = 2 -> c_lwsp(w, dbg)
          [] top = 3 -> Err("Unimplemented")
          [] top = 4 -> Err("Unimplemented")
          [] top = 5 -> Err("Unimplemented")
          [] top = 6 -> Err("Unimplemented")
          [] top = 7 -> Err("Unimplemented")
          [] OTHER -> Panic("unreachable")

(***************************************************************************)
(* ELF64 RISC-U Loader.  goblin's Elf is the record elf; a program header  *)
(* is [p_type, p_flags, p_offset, p_filesz].                               *)
(***************************************************************************)
PT_LOAD == 1

PT_NOTE == 4

PF_X == 1

PF_W == 2

PF_R == 4

is_executable(ph) == BitAnd(ph.p_flags, PF_X) # 0

is_write(ph) == BitAnd(ph.p_flags, PF_W) # 0

is_read(ph) == BitAnd(ph.p_flags, PF_R) # 0

file_range(ph) == [start |-> ph.p_offset, end |-> ph.p_offset + ph.p_filesz]

\* &raw[range] panics when the range does not lie in raw
SliceInBounds(bytes, r) == r.start <= r.end /\ r.end <= Len(bytes)

Slice(bytes, r) == SubSeq(bytes, r.start + 1, r.end)

\* Iterator::find: the first element among those at the indices hits (the
\* ones that satisfy the closure), <<>> for None
Find(s, hits) ==
    IF hits = {} THEN <<>>
    ELSE <<s[CHOOSE k \in hits : \A j \in hits : k <= j]>>

IsLoad(ph) == ph.p_type = PT_LOAD

IsCodeSegment(ph) == ~is_write(ph) /\ ~is_read(ph) /\ is_executable(ph)

IsDataSegment(ph) == is_write(ph) /\ is_read(ph) /\ ~is_executable(ph)

NotExecutable64LE == "has to be an executable, 64bit, static, little endian binary"

NotTwoSegments == "must have 2 program segments"

CodeMissing == "code segment (must be executable only) is missing"

DataMissing == "data segment (must be readable and writable only) is missing"

InvalidRiscu(msg) == [tag |-> "Err", val |-> 0, err |-> "InvalidRiscu", msg |-> msg]

DecodingError(e) == [tag |-> "Err", val |-> 0, err |-> "DecodingError", msg |-> e]

OutOfRange == [tag |-> "Panic", val |-> 0, err |-> "range end index out of range", msg |-> ""]

OkProgram(v) == [tag |-> "Ok", val |-> v, err |-> "none", msg |-> ""]

\* mutant: only the PT_LOAD headers are counted, e_phnum is not read
extract_program_info_counts_loads_only(bytes, e) ==
    LET ph_iter == SelectSeq(e.program_headers, IsLoad)
        code_segment_header ==
            Find(ph_iter, {k \in 1 .. Len(ph_iter) : IsCodeSegment(ph_iter[k])})
        data_segment_header ==
            Find(ph_iter, {k \in 1 .. Len(ph_iter) : IsDataSegment(ph_iter[k])})
    IN  IF e.is_lib \/ ~e.is_64 \/ ~e.little_endian THEN InvalidRiscu(NotExecutable64LE)
        ELSE IF Len(ph_iter) # 2 THEN InvalidRiscu(NotTwoSegments)
        ELSE IF code_segment_header = <<>> THEN InvalidRiscu(CodeMissing)
        ELSE IF data_segment_header = <<>> THEN InvalidRiscu(DataMissing)
        ELSE IF ~SliceInBounds(bytes, file_range(code_segment_header[1])) THEN OutOfRange
        ELSE IF ~SliceInBounds(bytes, file_range(data_segment_header[1])) THEN OutOfRange
        ELSE OkProgram([code_segment |-> Slice(bytes, file_range(code_segment_header[1])),
                        data_segment |-> Slice(bytes, file_range(data_segment_header[1])),
                        entry_address |-> e.entry])

extract_program_info(bytes, e) ==
    LET ph_iter == SelectSeq(e.program_headers, IsLoad)
        code_segment_header ==
            Find(ph_iter, {k \in 1 .. Len(ph_iter) : IsCodeSegment(ph_iter[k])})
        data_segment_header ==
            Find(ph_iter, {k \in 1 .. Len(ph_iter) : IsDataSegment(ph_iter[k])})
    IN  IF e.is_lib \/ ~e.is_64 \/ ~e.little_endian THEN InvalidRiscu(NotExecutable64LE)
        ELSE IF e.e_phnum # 2 \/ Len(ph_iter) # 2 THEN InvalidRiscu(NotTwoSegments)
        ELSE IF code_segment_header = <<>> THEN InvalidRiscu(CodeMissing)
        ELSE IF data_segment_header = <<>> THEN InvalidRiscu(DataMissing)
        ELSE IF ~SliceInBounds(bytes, file_range(code_segment_header[1])) THEN OutOfRange
        ELSE IF ~SliceInBounds(bytes, file_range(data_segment_header[1])) THEN OutOfRange
        ELSE OkProgram([code_segment |-> Slice(bytes, file_range(code_segment_header[1])),
                        data_segment |-> Slice(bytes, file_range(data_segment_header[1])),
                        entry_address |-> e.entry])

\* mutant: the entry address is not copied
copy_segments_entry_lost(program) ==
    [code_segment |-> program.code_segment,
     data_segment |-> program.data_segment,
     entry_address |-> 0]

copy_segments(program) ==
    [code_segment |-> program.code_segment,
     data_segment |-> program.data_segment,
     entry_address |-> program.entry_address]

\* slice::chunks_exact(n): the whole chunks of n bytes; a shorter rest is left out
chunks_exact(bytes, n) ==
    [c \in 1 .. (Len(bytes) \div n) |-> SubSeq(bytes, (c - 1) * n + 1, c * n)]

\* LittleEndian::read_u32 and read_u64, the value as little-endian 16-bit limbs
read_limbs(chunk) ==
    [k \in 1 .. (Len(chunk) \div 2) |-> chunk[2 * k - 1] + 256 * chunk[2 * k]]

\* crate::decode: the all-zero word is the illegal instruction; any other
\* word stands for the instruction it decodes to
decode(word) ==
    IF \A k \in 1 .. Len(word) : word[k] = 0 THEN Err("Illegal") ELSE Ok(word)

\* collect::<Result<Vec<_>, _>>(): the first error, or all the values
RECURSIVE Collect(_, _)
Collect(rs, k) ==
    IF k > Len(rs) THEN OkProgram([c \in 1 .. Len(rs) |-> rs[c].val])
    ELSE IF rs[k].tag = "Err" THEN DecodingError(rs[k].err)
    ELSE Collect(rs, k + 1)

copy_and_decode_segments(program) ==
    LET code_chunks == chunks_exact(program.code_segment, 4)
        decoded == [c \in 1 .. Len(code_chunks) |-> decode(read_limbs(code_chunks[c]))]
        code_segment == Collect(decoded, 1)
        data_chunks == chunks_exact(program.data_segment, 8)
        data_segment == [c \in 1 .. Len(data_chunks) |-> read_limbs(data_chunks[c])]
    IN  IF code_segment.tag = "Err" THEN code_segment
        ELSE OkProgram([code_segment |-> code_segment.val,
                        data_segment |-> data_segment,
                        entry_address |-> program.entry_address])

\* load_elf_file after fs::read and Elf::parse succeeded, with each collector
load_object_file(bytes, e) ==
    LET info == extract_program_info(bytes, e)
    IN  IF info.tag = "Ok" THEN OkProgram(copy_segments(info.val)) ELSE info

load_and_decode_object_file(bytes, e) ==
    LET info == extract_program_info(bytes, e)
    IN  IF info.tag = "Ok" THEN copy_and_decode_segments(info.val) ELSE info

(***************************************************************************)
(* Inputs that a call does not read keep these values.                     *)
(***************************************************************************)
NoElf ==
    [is_lib |-> FALSE, is_64 |-> TRUE, little_endian |-> TRUE, entry |-> 0,
     e_phnum |-> 0, program_headers |-> <<>>]

NoDecompressInput == i = 0

NoPermuteInput == perm_w = 16 /\ perm = <<>> /\ x = <<0>>

NoElfInput == elf = NoElf /\ raw = <<>>

(***************************************************************************)
(* The quadrant decoders, each called once on any u16.                     *)
(***************************************************************************)
InitDecompress ==
    /\ debug_build \in BOOLEAN
    /\ i \in Word16
    /\ NoPermuteInput
    /\ NoElfInput
    /\ fn = <<>>
    /\ result = NoResult

Call_decompress_q0 ==
    /\ fn = <<>>
    /\ fn' = <<"decompress_q0">>
    /\ result' = decompress_q0(i)
    /\ UNCHANGED <<debug_build, i, perm_w, perm, x, elf, raw>>

Call_decompress_q1 ==
    /\ fn = <<>>
    /\ fn' = <<"decompress_q1">>
    /\ result' = decompress_q1(i)
    /\ UNCHANGED <<debug_build, i, perm_w, perm, x, elf, raw>>

Call_decompress_q2 ==
    /\ fn = <<>>
    /\ fn' = <<"decompress_q2">>
    /\ result' = decompress_q2(i, debug_build)
    /\ UNCHANGED <<debug_build, i, perm_w, perm, x, elf, raw>>

NextDecompress ==
    \/ Call_decompress_q0
    \/ Call_decompress_q1
    \/ Call_decompress_q2

SpecDecompress == InitDecompress /\ [][NextDecompress]_vars

(***************************************************************************)
(* Fields of the compressed word and of the canonical instruction word,    *)
(* as the instruction formats define them.                                 *)
(***************************************************************************)
Field(w, lo, n) == (w \div (2 ^ lo)) % (2 ^ n)

Top3 == Field(i, 13, 3)

RdOfI == Field(i, 7, 5)

\* the 6-bit CI immediate: bit 12 of i as bit 5, bits 2-6 of i as bits 0-4
CiImm == 32 * Field(i, 12, 1) + Field(i, 2, 5)

SignExtend(v, n) == IF v >= 2 ^ (n - 1) THEN v - 2 ^ n ELSE v

Opcode(w) == Field(w, 0, 7)

RdOf(w) == Field(w, 7, 5)

Funct3(w) == Field(w, 12, 3)

Rs1Of(w) == Field(w, 15, 5)

Rs2Of(w) == Field(w, 20, 5)

Imm12(w) == Field(w, 20, 12)

Funct7(w) == Field(w, 25, 7)

Called(f) == fn = <<f>>

\* C1: decompress_q1 of a word with bits 13-15 = 010 and rd # 0 is Ok(w), w an
\* ADDI rd, zero, imm whose 12-bit immediate, read as signed, is the
\* sign-extended 6-bit CI immediate.
C1_LiSignExtends ==
    (Called("decompress_q1") /\ Top3 = 2 /\ RdOfI # 0) =>
        /\ result.tag = "Ok"
        /\ Opcode(result.val) = 19
        /\ Funct3(result.val) = 0
        /\ RdOf(result.val) = RdOfI
        /\ Rs1Of(result.val) = Register_Zero
        /\ SignExtend(Imm12(result.val), 12) = SignExtend(CiImm, 6)

\* the byte offset of C.LWSP: bit 5 = i[12], bits 4..2 = i[6..4], bits 7..6 = i[3..2]
LwspOffset == 32 * Field(i, 12, 1) + 4 * Field(i, 4, 3) + 64 * Field(i, 2, 2)

\* C2: decompress_q2 of a word with bits 13-15 = 010 and rd # 0 is Ok(w), w an
\* LW rd, offset(sp) with the offset bits reordered by [5,4,3,2,7,6]; every
\* other value of bits 13-15 gives Err(Unimplemented).
C2_LwspDecodes ==
    Called("decompress_q2") =>
        /\ (Top3 = 2 /\ RdOfI # 0) =>
              /\ result.tag = "Ok"
              /\ Opcode(result.val) = 3
              /\ Funct3(result.val) = 2
              /\ RdOf(result.val) = RdOfI
              /\ Rs1Of(result.val) = Register_Sp
              /\ Imm12(result.val) = LwspOffset
        /\ Top3 # 2 => result = Err("Unimplemented")

C2_Witness ==
    /\ Called("decompress_q2")
    /\ Top3 = 2
    /\ RdOfI = 9
    /\ Field(i, 2, 2) = 1
    /\ Field(i, 4, 3) = 5
    /\ result.tag = "Ok"
    /\ Imm12(result.val) = 84
    /\ Rs1Of(result.val) = 2

\* C3: in decompress_q1, bits 13-15 = 100 and bits 10-11 = 11: with bit 12 = 0
\* and bits 5-6 = 00 the result is Ok(SUB r, r, rs2), r = 8 + bits[9:7],
\* rs2 = 8 + bits[4:2]; with bit 12 = 1 and bits 5-6 in {10, 11} it is
\* Err(Reserved).
C3_MiscAluSub ==
    (Called("decompress_q1") /\ Top3 = 4 /\ Field(i, 10, 2) = 3) =>
        /\ (Field(i, 12, 1) = 0 /\ Field(i, 5, 2) = 0) =>
              /\ result.tag = "Ok"
              /\ Funct7(result.val) = 32
              /\ Funct3(result.val) = 0
              /\ Opcode(result.val) = 51
              /\ RdOf(result.val) = 8 + Field(i, 7, 3)
              /\ Rs1Of(result.val) = 8 + Field(i, 7, 3)
              /\ Rs2Of(result.val) = 8 + Field(i, 2, 3)
              /\ {RdOf(result.val), Rs1Of(result.val), Rs2Of(result.val)} \subseteq 8 .. 15
        /\ (Field(i, 12, 1) = 1 /\ Field(i, 5, 2) \in {2, 3}) =>
              result = Err("Reserved")

C3_Witness ==
    /\ Called("decompress_q1")
    /\ Top3 = 4
    /\ Field(i, 10, 2) = 3
    /\ Field(i, 12, 1) = 0
    /\ Field(i, 5, 2) = 0
    /\ Field(i, 7, 3) = 5
    /\ Field(i, 2, 3) = 6
    /\ result.tag = "Ok"
    /\ RdOf(result.val) = 13
    /\ Rs2Of(result.val) = 14

\* C4: decompress_q0 never returns Ok; its error is decided by bits 13-15
\* alone: Illegal for 000, Reserved for 100, Unimplemented for the other six.
C4_Q0Classifies ==
    Called("decompress_q0") =>
        /\ result.tag = "Err"
        /\ result.err \in {"Illegal", "Reserved", "Unimplemented"}
        /\ result.err = "Illegal" <=> Top3 = 0
        /\ result.err = "Reserved" <=> Top3 = 4
        /\ result.err = "Unimplemented" <=> Top3 \in {1, 2, 3, 5, 6, 7}

C4_Witness ==
    /\ Called("decompress_q0")
    /\ Top3 = 4
    /\ i # 32768
    /\ result = Err("Reserved")

\* C9: no input drives decompress_q1 into an unreachable arm: with bits
\* 13-15 = 100 and bits 10-11 = 11 the result is one of the listed cases (a
\* SUB or Err(Reserved)); with bits 13-15 = 100 and bits 10-11 in {00, 01, 10},
\* and with bits 13-15 other than 010 and 100, it is Err(Unimplemented).
C9_NoUnreachableArm ==
    Called("decompress_q1") =>
        /\ ~(result.tag = "Panic" /\ result.err = "unreachable")
        /\ (Top3 = 4 /\ Field(i, 10, 2) = 3) =>
              (result.tag = "Ok" \/ result = Err("Reserved"))
        /\ (Top3 = 4 /\ Field(i, 10, 2) \in {0, 1, 2}) =>
              result = Err("Unimplemented")
        /\ Top3 \notin {2, 4} => result = Err("Unimplemented")

\* C10: with bits 13-15 = 010 and rd = 0 neither decompress_q1 nor
\* decompress_q2 returns Ok: the rd != 0 assertion aborts, whatever the
\* immediate bits are.
C10_RdZeroAborts ==
    ((Called("decompress_q1") \/ Called("decompress_q2")) /\ Top3 = 2 /\ RdOfI = 0) =>
        /\ result.tag # "Ok"
        /\ result = Panic("rd == 0 is reserved!")

C10_Witness ==
    /\ Called("decompress_q2")
    /\ Top3 = 2
    /\ RdOfI = 0
    /\ CiImm = 63
    /\ result = Panic("rd == 0 is reserved!")

(***************************************************************************)
(* The permutation utility: calls of permute and inv_permute with one      *)
(* list, each on the value the call before returned (the first on x).      *)
(* The lists are non-empty and satisfy the debug_assert! precondition, as  *)
(* the decoder's constant tables do.                                       *)
(***************************************************************************)
MaxPermLen == 3

MaxCalls == 2

\* the bit positions the short lists are built from
PermIdx(w) == {0, 1, 3, w - 1}

\* lists of full length w: the identity order, its reverse and a rotation
FullPerms(w) ==
    { [k \in 1 .. w |-> w - k], [k \in 1 .. w |-> k - 1], [k \in 1 .. w |-> (k + 4) % w] }

PermLists(w) ==
    UNION { [1 .. n -> PermIdx(w)] : n \in 1 .. MaxPermLen } \cup FullPerms(w)

Receivers(w) ==
    IF w = 16
    THEN { <<0>>, <<1>>, <<5>>, <<32769>>, <<65535>>, <<42435>> }
    ELSE { <<0, 0>>, <<5, 0>>, <<0, 1>>, <<1, 32768>>, <<65535, 65535>>, <<42435, 3870>> }

InitPermute ==
    /\ debug_build \in BOOLEAN
    /\ perm_w \in {16, 32}
    /\ perm \in PermLists(perm_w)
    /\ x \in Receivers(perm_w)
    /\ NoDecompressInput
    /\ NoElfInput
    /\ fn = <<>>
    /\ result = NoResult

\* the receiver of the next call; a panic ends the run
CanCall == Len(fn) < MaxCalls /\ (fn = <<>> \/ result.tag = "Ok")

Receiver == IF fn = <<>> THEN x ELSE result.val

Call_permute ==
    /\ CanCall
    /\ fn' = Append(fn, "permute")
    /\ result' = permute(perm_w, Receiver, perm, debug_build)
    /\ UNCHANGED <<debug_build, i, perm_w, perm, x, elf, raw>>

Call_inv_permute ==
    /\ CanCall
    /\ fn' = Append(fn, "inv_permute")
    /\ result' = inv_permute(perm_w, Receiver, perm, debug_build)
    /\ UNCHANGED <<debug_build, i, perm_w, perm, x, elf, raw>>

NextPermute ==
    \/ Call_permute
    \/ Call_inv_permute

SpecPermute == InitPermute /\ [][NextPermute]_vars

Distinct(p) == \A a, b \in 1 .. Len(p) : a # b => p[a] # p[b]

Range(p) == { p[k] : k \in 1 .. Len(p) }

BitOf(v, k) == (v[(k \div 16) + 1] \div (2 ^ (k % 16))) % 2

RoundTrip == fn = <<"inv_permute", "permute">>

InvRoundTrip == fn = <<"permute", "inv_permute">>

\* C5 as stated: with a list of distinct entries < W, permute after
\* inv_permute, and inv_permute after permute, return the receiver x, for
\* every W-bit x.
C5_MutualInverses ==
    ((RoundTrip \/ InvRoundTrip) /\ Distinct(perm)) => result = Ok(x)

\* C5 as amended: with a list of distinct entries < W, permute after
\* inv_permute returns the low Len(perm) bits of x, and inv_permute after
\* permute returns the bits of x at the positions the list names; all other
\* bits are cleared.  So the round trips return x when x < 2^Len(perm), resp.
\* when x is zero outside the listed positions, and for every x when the list
\* has full length W.
C5_InversesOnListedBits ==
    Distinct(perm) =>
        /\ RoundTrip =>
              /\ result.tag = "Ok"
              /\ \A k \in 0 .. perm_w - 1 :
                    BitOf(result.val, k) = IF k < Len(perm) THEN BitOf(x, k) ELSE 0
        /\ InvRoundTrip =>
              /\ result.tag = "Ok"
              /\ \A k \in 0 .. perm_w - 1 :
                    BitOf(result.val, k) = IF k \in Range(perm) THEN BitOf(x, k) ELSE 0
        /\ ((RoundTrip \/ InvRoundTrip) /\ Len(perm) = perm_w) => result = Ok(x)

C5_Witness ==
    /\ InvRoundTrip
    /\ perm_w = 32
    /\ perm = [k \in 1 .. 32 |-> (k + 4) % 32]
    /\ x = <<42435, 3870>>
    /\ result = Ok(x)

(***************************************************************************)
(* The loader, called once on a file that was read and parsed.  Init draws *)
(* two families of images: any short list of program headers over a fixed  *)
(* file (the shape checks), and the two-segment layout with segments of    *)
(* any length at several offsets, over files of several contents (the      *)
(* slicing and the chunking).                                              *)
(***************************************************************************)
MaxPh == 3

MaxSeg == 9

MaxRaw == 10

EntrySamples == {65536, 65700}

Image(lib, b64, le, entry, phs) ==
    [is_lib |-> lib, is_64 |-> b64, little_endian |-> le, entry |-> entry,
     e_phnum |-> Len(phs), program_headers |-> phs]

Ph(type, flags, offset, filesz) ==
    [p_type |-> type, p_flags |-> flags, p_offset |-> offset, p_filesz |-> filesz]

ShapeHeaders ==
    { Ph(t, f, 0, 4) : t \in {PT_LOAD, PT_NOTE}, f \in {PF_X, PF_R + PF_W, PF_R + PF_X} }

RawSamples ==
    { [k \in 1 .. MaxRaw |-> 1],
      [k \in 1 .. MaxRaw |-> 0],
      [k \in 1 .. MaxRaw |-> k],
      [k \in 1 .. MaxRaw |-> IF k \in 5 .. 8 THEN 0 ELSE k] }

InitShape ==
    /\ raw = [k \in 1 .. MaxRaw |-> k]
    /\ \E lib, b64, le \in BOOLEAN, entry \in EntrySamples, n \in 0 .. MaxPh :
          \E phs \in [1 .. n -> ShapeHeaders] :
             elf = Image(lib, b64, le, entry, phs)

InitChunks ==
    /\ raw \in RawSamples
    /\ \E entry \in EntrySamples, coff \in {0, 2}, clen \in 0 .. MaxSeg,
          dlen \in {0, 8, 9}, codeFirst \in BOOLEAN :
          LET code == Ph(PT_LOAD, PF_X, coff, clen)
              data == Ph(PT_LOAD, PF_R + PF_W, 0, dlen)
          IN  elf = Image(FALSE, TRUE, TRUE, entry,
                          IF codeFirst THEN <<code, data>> ELSE <<data, code>>)

InitElf ==
    /\ debug_build \in BOOLEAN
    /\ NoDecompressInput
    /\ NoPermuteInput
    /\ InitShape \/ InitChunks
    /\ fn = <<>>
    /\ result = NoResult

Call_load_object_file ==
    /\ fn = <<>>
    /\ fn' = <<"load_object_file">>
    /\ result' = load_object_file(raw, elf)
    /\ UNCHANGED <<debug_build, i, perm_w, perm, x, elf, raw>>

Call_load_and_decode_object_file ==
    /\ fn = <<>>
    /\ fn' = <<"load_and_decode_object_file">>
    /\ result' = load_and_decode_object_file(raw, elf)
    /\ UNCHANGED <<debug_build, i, perm_w, perm, x, elf, raw>>

NextElf ==
    \/ Call_load_object_file
    \/ Call_load_and_decode_object_file

SpecElf == InitElf /\ [][NextElf]_vars

(***************************************************************************)
(* The RISC-U shape of an image, read off the image itself.                *)
(***************************************************************************)
LoadIdx == { k \in 1 .. Len(elf.program_headers) : elf.program_headers[k].p_type = PT_LOAD }

ExecOnlyIdx == { k \in LoadIdx : elf.program_headers[k].p_flags = PF_X }

ReadWriteIdx == { k \in LoadIdx : elf.program_headers[k].p_flags = PF_R + PF_W }

Executable64LE == ~elf.is_lib /\ elf.is_64 /\ elf.little_endian

\* 64-bit, little-endian, not a library, exactly two PT_LOAD headers, one
\* execute-only and the other read-write and not executable
TwoSegmentShape ==
    /\ Executable64LE
    /\ Cardinality(LoadIdx) = 2
    /\ Cardinality(ExecOnlyIdx) = 1
    /\ Cardinality(ReadWriteIdx) = 1

InFile(k) ==
    elf.program_headers[k].p_offset + elf.program_headers[k].p_filesz <= Len(raw)

Loaded == Called("load_object_file") \/ Called("load_and_decode_object_file")

\* C6 as stated: every image of the two-segment shape is accepted by
\* load_object_file, whatever non-PT_LOAD headers it also declares, and the
\* entry_address returned is the header's entry.
C6_TwoSegmentAccepted ==
    (Called("load_object_file") /\ TwoSegmentShape) =>
        /\ result.tag = "Ok"
        /\ result.val.entry_address = elf.entry

\* C6 as amended: every image of the two-segment shape that declares no
\* program header besides its two PT_LOAD headers, and whose two segments lie
\* within the file, is accepted by load_object_file, and the entry_address
\* returned is the header's entry.
C6_TwoHeadersAccepted ==
    (/\ Called("load_object_file")
     /\ TwoSegmentShape
     /\ Len(elf.program_headers) = 2
     /\ \A k \in LoadIdx : InFile(k)) =>
        /\ result.tag = "Ok"
        /\ result.val.entry_address = elf.entry

C6_Witness ==
    /\ Called("load_object_file")
    /\ TwoSegmentShape
    /\ Len(elf.program_headers) = 2
    /\ elf.program_headers[1].p_flags = PF_R + PF_W
    /\ elf.entry = 65700
    /\ result.tag = "Ok"
    /\ result.val.entry_address = 65700

IsInvalidRiscu(msg) ==
    result.tag = "Err" /\ result.err = "InvalidRiscu" /\ result.msg = msg

\* C7 as stated: a violating image gets Err(InvalidRiscu(msg)), never Ok, the
\* constraints being tried in this order: library, 32-bit or big-endian; then
\* a number of PT_LOAD headers other than 2; then no execute-only PT_LOAD
\* header; then no read-write, not executable PT_LOAD header.
C7_NamedViolation ==
    Loaded =>
        IF ~Executable64LE THEN IsInvalidRiscu(NotExecutable64LE)
        ELSE IF Cardinality(LoadIdx) # 2 THEN IsInvalidRiscu(NotTwoSegments)
        ELSE IF ExecOnlyIdx = {} THEN IsInvalidRiscu(CodeMissing)
        ELSE IF ReadWriteIdx = {} THEN IsInvalidRiscu(DataMissing)
        ELSE TRUE

\* C7 as amended: as stated, except that the second constraint tried is "the
\* number of program headers is 2 and the number of PT_LOAD headers is 2": an
\* image that declares any other number of program headers gets "must have 2
\* program segments", whatever its PT_LOAD headers are.
C7_NamedViolationByHeaderCount ==
    Loaded =>
        IF ~Executable64LE THEN IsInvalidRiscu(NotExecutable64LE)
        ELSE IF Len(elf.program_headers) # 2 \/ Cardinality(LoadIdx) # 2
             THEN IsInvalidRiscu(NotTwoSegments)
        ELSE IF ExecOnlyIdx = {} THEN IsInvalidRiscu(CodeMissing)
        ELSE IF ReadWriteIdx = {} THEN IsInvalidRiscu(DataMissing)
        ELSE TRUE

C7_Witness ==
    /\ Called("load_and_decode_object_file")
    /\ Executable64LE
    /\ Len(elf.program_headers) = 2
    /\ Cardinality(LoadIdx) = 2
    /\ ExecOnlyIdx = {}
    /\ ReadWriteIdx # {}
    /\ IsInvalidRiscu(CodeMissing)

\* the bytes of the code segment: the file range of the execute-only header
CodeBytes ==
    LET ph == elf.program_headers[CHOOSE k \in ExecOnlyIdx : TRUE]
    IN  SubSeq(raw, ph.p_offset + 1, ph.p_offset + ph.p_filesz)

\* C8: when load_and_decode_object_file returns Ok, the decoded code segment
\* holds one instruction per 4 bytes of the raw code segment, in order, and
\* no byte of the raw code segment is left undecoded.
C8_ChunkingExact ==
    (Called("load_and_decode_object_file") /\ result.tag = "Ok") =>
        /\ 4 * Len(result.val.code_segment) = Len(CodeBytes)
        /\ \A c \in 1 .. Len(result.val.code_segment) :
              result.val.code_segment[c] =
                  <<CodeBytes[4 * c - 3] + 256 * CodeBytes[4 * c - 2],
                    CodeBytes[4 * c - 1] + 256 * CodeBytes[4 * c]>>

====
